---- MODULE Spec2Model ----
(***************************************************************************)
(* Model of src/transitions.js: applyTransitions(pptxBlob), the routine    *)
(* that opens a PPTX archive with JSZip, finds and orders the slide parts, *)
(* injects a transition fragment into every slide but the first and        *)
(* re-serializes the archive.                                              *)
(*                                                                         *)
(* Text is modelled as a sequence of tokens (each token an atomic piece of *)
(* markup); an entry path as the record of the pieces the regular          *)
(* expression of line 56 tells apart; a Blob as a value with an identity.  *)
(* One action is one run-to-completion segment of the async function, from *)
(* one await to the next.                                                  *)
(***************************************************************************)
EXTENDS Integers, Sequences, FiniteSets, TLC

\* ---------------------------------------------------------------- bounds
MaxSlides == 3        \* slides of a deck in Spec
MaxInv == 2           \* invocations of applyTransitions
MaxCycleSlides == 5   \* slides of a deck in SpecCycle
MaxOrdinal == 11      \* largest ordinal of the full deck in SpecOrder
MaxConcSlides == 3    \* slides of a deck in SpecConc

Invocations == 1..MaxInv

\* ------------------------------------------------------- generic helpers
Range(s) == {s[n] : n \in 1..Len(s)}

RECURSIVE Reverse(_)
Reverse(s) == IF s = <<>> THEN <<>> ELSE Append(Reverse(Tail(s)), Head(s))

RECURSIVE Count(_, _)
Count(s, toks) ==
    IF s = <<>> THEN 0
    ELSE (IF Head(s) \in toks THEN 1 ELSE 0) + Count(Tail(s), toks)

\* -------------------------------------------------- the transition catalog
TRANSITIONS ==
    [morph |-> <<"<mc:AlternateContent", "<mc:Choice", "<p:transition", "<p159:morph",
                 "<mc:Fallback", "<p:transition", "<p:fade">>,
     push  |-> <<"<p:transition", "<p:push">>,
     cover |-> <<"<p:transition", "<p:cover">>,
     fade  |-> <<"<p:transition", "<p:fade">>,
     wipe  |-> <<"<p:transition", "<p:wipe">>]

TRANSITION_SEQUENCE == <<"morph", "push">>

\* ------------------------------------------------------ String operations
\* String.prototype.indexOf: 0-based position of the first occurrence, or -1.
IndexOf(xml, tok) ==
    IF \E n \in 1..Len(xml) : xml[n] = tok
    THEN (CHOOSE n \in 1..Len(xml) :
              xml[n] = tok /\ \A m \in 1..(n - 1) : xml[m] # tok) - 1
    ELSE -1

\* String.prototype.replace with a string pattern: the first occurrence only;
\* the text itself when the pattern does not occur.
StrReplace(xml, tok, repl) ==
    LET n == IndexOf(xml, tok)
    IN  IF n = -1 THEN xml
        ELSE SubSeq(xml, 1, n) \o repl \o SubSeq(xml, n + 2, Len(xml))

\* slideXml.indexOf('<p:transition') === -1
NoTransition_Never(slideXml) == TRUE

NoTransition(slideXml) == IndexOf(slideXml, "<p:transition") = -1

\* TRANSITION_SEQUENCE[i % TRANSITION_SEQUENCE.length], i the loop index
TransTypeAt_FromSecond(idx) ==
    TRANSITION_SEQUENCE[((idx - 1) % Len(TRANSITION_SEQUENCE)) + 1]

TransTypeAt(idx) == TRANSITION_SEQUENCE[(idx % Len(TRANSITION_SEQUENCE)) + 1]

\* slideXml.replace('</p:sld>', transXml + '</p:sld>')
Inject(slideXml, transXml) ==
    StrReplace(slideXml, "</p:sld>", transXml \o <<"</p:sld>">>)

\* ------------------------------------------------------------ entry paths
\* A path dir/name<digits>ext, e.g. ppt/slides/slide12.xml.
Path(dir, name, digits, ext) ==
    [dir |-> dir, name |-> name, digits |-> digits, ext |-> ext]

\* /^ppt\/slides\/slide\d+\.xml$/.test(relativePath)
IsSlidePath_Unanchored(p) ==
    /\ p.name = "slide"
    /\ Len(p.digits) >= 1
    /\ p.ext = ".xml"

IsSlidePath(p) ==
    /\ p.dir = "ppt/slides"
    /\ p.name = "slide"
    /\ Len(p.digits) >= 1
    /\ p.ext = ".xml"

\* parseInt of a run of decimal digits
RECURSIVE ParseInt(_)
ParseInt(digits) ==
    IF digits = <<>> THEN 0
    ELSE 10 * ParseInt(SubSeq(digits, 1, Len(digits) - 1)) + digits[Len(digits)]

\* parseInt(a.match(/slide(\d+)/)[1])
SlideNum(p) == ParseInt(p.digits)

\* Code-unit comparison of the two names from the digits on ("10.xml" against
\* "2.xml"): what Array.prototype.sort does without a comparator.
RECURSIVE LexCompare(_, _)
LexCompare(a, b) ==
    IF a = <<>> /\ b = <<>> THEN 0
    ELSE IF a = <<>> THEN -1      \* '.' sorts before every digit
    ELSE IF b = <<>> THEN 1
    ELSE IF Head(a) # Head(b) THEN Head(a) - Head(b)
    ELSE LexCompare(Tail(a), Tail(b))

CompareSlides_Lexical(a, b) == LexCompare(a.digits, b.digits)

\* the comparator of slideFiles.sort: numA - numB
CompareSlides(a, b) == SlideNum(a) - SlideNum(b)

\* Array.prototype.sort with that comparator (a stable sort).
RECURSIVE InsertSorted(_, _)
InsertSorted(s, x) ==
    IF s = <<>> THEN <<x>>
    ELSE IF CompareSlides(x, s[Len(s)]) < 0
         THEN Append(InsertSorted(SubSeq(s, 1, Len(s) - 1), x), s[Len(s)])
         ELSE Append(s, x)

RECURSIVE SortSlides(_)
SortSlides(s) ==
    IF s = <<>> THEN <<>>
    ELSE InsertSorted(SortSlides(SubSeq(s, 1, Len(s) - 1)), s[Len(s)])

\* zip.forEach(... slideFiles.push(relativePath) ...): the matching paths in
\* the archive's enumeration order.
RECURSIVE FilterSlides(_)
FilterSlides(order) ==
    IF order = <<>> THEN <<>>
    ELSE IF IsSlidePath(Head(order))
         THEN <<Head(order)>> \o FilterSlides(Tail(order))
         ELSE FilterSlides(Tail(order))

FindSlideFiles(order) == SortSlides(FilterSlides(order))

\* the first index of the injection loop: for (var i = 1; ...)
FirstIndex_Zero == Len(<<>>)

FirstIndex == 1

\* ------------------------------------------------------ blobs and packages
\* An entry's content: its text, or data that cannot be decoded (ok = FALSE).
Content(text) == [ok |-> TRUE, text |-> text]
CorruptData == [ok |-> FALSE, text |-> <<>>]

NoEntries == [p \in {} |-> CorruptData]

\* A Blob: its identity, whether it is a ZIP archive, and the archive's entries
\* in their enumeration order.
Blob(id, valid, order, data) ==
    [id |-> id, valid |-> valid, order |-> order, data |-> data]

\* The JSZip object: zip.files, an insertion-ordered map from path to content.
Package(order, data) == [order |-> order, data |-> data]
NoPackage == Package(<<>>, NoEntries)

\* zip.file(name, data) on an entry of this invocation's package: the content
\* is replaced, the key keeps its place.
WriteFile_SharedPackage(z, k, path, xml) ==
    IF path \in DOMAIN z[1].data
    THEN [z EXCEPT ![1].data[path] = Content(xml)]
    ELSE z

WriteFile(z, k, path, xml) == [z EXCEPT ![k].data[path] = Content(xml)]

\* ------------------------------------------------------------------ inputs
RECURSIVE Digits(_)
Digits(n) == IF n < 10 THEN <<n>> ELSE Append(Digits(n \div 10), n % 10)

SlidePath(n) == Path("ppt/slides", "slide", Digits(n), ".xml")

Presentation == Path("ppt", "presentation", <<>>, ".xml")
Layout1 == Path("ppt/slideLayouts", "slideLayout", <<1>>, ".xml")
Master1 == Path("ppt/slideMasters", "slideMaster", <<1>>, ".xml")
Rels1 == Path("ppt/slides/_rels", "slide", <<1>>, ".xml.rels")
StraySlide == Path("backup/ppt/slides", "slide", <<2>>, ".xml")

Plain == <<"<p:sld", "<p:cSld", "</p:sld>">>
Marked == <<"<p:sld", "<p:cSld", "<p:transition", "<p:fade", "</p:sld>">>
NoClose == <<"<p:sld", "<p:cSld">>
TwoClose == <<"<p:sld", "<!--", "</p:sld>", "-->", "</p:sld>">>

OtherEntries == <<Presentation, Layout1, Master1, Rels1, StraySlide>>

OtherContent(p) ==
    IF p = StraySlide THEN Content(Plain)
    ELSE IF p = Layout1 THEN Content(<<"<p:sldLayout", "</p:sldLayout>">>)
    ELSE Content(<<"<", p.name>>)

\* The archive with the given enumeration order, whose slide with ordinal
\* ords[q] has content f[q].
Archive(order, ords, f) ==
    Blob(0, TRUE, order,
         [p \in Range(order) |->
            IF \E q \in 1..Len(ords) : p = SlidePath(ords[q])
            THEN f[CHOOSE q \in 1..Len(ords) : p = SlidePath(ords[q])]
            ELSE OtherContent(p)])

Deck(ords, f, rev) ==
    LET listed == OtherEntries \o [q \in 1..Len(ords) |-> SlidePath(ords[q])]
    IN  Archive(IF rev THEN Reverse(listed) ELSE listed, ords, f)

NotArchive == Blob(0, FALSE, <<>>, NoEntries)

SlideContents == {Content(Plain), Content(Marked), Content(NoClose),
                  Content(TwoClose), CorruptData}

Inputs ==
    {NotArchive} \cup
    UNION {{Deck([q \in 1..n |-> q], f, rev) :
                f \in [1..n -> SlideContents], rev \in BOOLEAN} : n \in 0..MaxSlides}

\* ------------------------------------------------------------------- state
VARIABLES
    input,          \* the blob the first caller holds
    JSZipDefined,   \* typeof JSZip !== 'undefined'
    scriptTag,      \* document has the <script src=jszip> element
    pc,             \* where each invocation is suspended
    pptxBlob,       \* each invocation's argument
    zip,            \* each invocation's JSZip object
    slideFiles,     \* each invocation's sorted list of slide paths
    i,              \* each invocation's loop index
    result,         \* the blob each invocation's promise is fulfilled with
    err,            \* the error each invocation ended with, "none" if none
    log,            \* each invocation's console output
    reads,          \* the paths each invocation has asked zip.file() to read
    script          \* the state of each invocation's loadScript promise

vars == <<input, JSZipDefined, scriptTag, pc, pptxBlob, zip, slideFiles, i,
          result, err, log, reads, script>>

LogFound(n) == [kind |-> "found", n |-> n, type |-> ""]
LogSlide(n, type) == [kind |-> "slide", n |-> n, type |-> type]
LogApplied == [kind |-> "applied", n |-> 0, type |-> ""]
LogError == [kind |-> "error", n |-> 0, type |-> ""]

InitFrom(inputs) ==
    /\ input \in inputs
    /\ JSZipDefined \in BOOLEAN
    /\ scriptTag = FALSE
    /\ pc = [k \in Invocations |-> "idle"]
    /\ pptxBlob = [k \in Invocations |-> NotArchive]
    /\ zip = [k \in Invocations |-> NoPackage]
    /\ slideFiles = [k \in Invocations |-> <<>>]
    /\ i = [k \in Invocations |-> 0]
    /\ result = [k \in Invocations |-> NotArchive]
    /\ err = [k \in Invocations |-> "none"]
    /\ log = [k \in Invocations |-> <<>>]
    /\ reads = [k \in Invocations |-> <<>>]
    /\ script = [k \in Invocations |-> "none"]

Init == InitFrom(Inputs)

\* ----------------------------------------------------------------- actions
\* loadScript(src): resolved at once when the script element is already in the
\* document, else the element is appended and the promise waits for its
\* onload / onerror.
loadScript(k) ==
    IF scriptTag
    THEN /\ script' = [script EXCEPT ![k] = "resolved"]
         /\ UNCHANGED scriptTag
    ELSE /\ script' = [script EXCEPT ![k] = "pending"]
         /\ scriptTag' = TRUE

\* catch (err) { console.error(...); return pptxBlob; }
Catch_ReturnsPackage(k, e) ==
    /\ err' = [err EXCEPT ![k] = e]
    /\ log' = [log EXCEPT ![k] = Append(@, LogError)]
    /\ result' = [result EXCEPT ![k] = Blob(k, TRUE, zip[k].order, zip[k].data)]
    /\ pc' = [pc EXCEPT ![k] = "returned"]

Catch(k, e) ==
    /\ err' = [err EXCEPT ![k] = e]
    /\ log' = [log EXCEPT ![k] = Append(@, LogError)]
    /\ result' = [result EXCEPT ![k] = pptxBlob[k]]
    /\ pc' = [pc EXCEPT ![k] = "returned"]

\* The call: runs to the first await, which is loadScript's promise when JSZip
\* is not defined and JSZip.loadAsync's otherwise.
applyTransitions(k, blob) ==
    /\ pc[k] = "idle"
    /\ pptxBlob' = [pptxBlob EXCEPT ![k] = blob]
    /\ IF JSZipDefined
       THEN /\ pc' = [pc EXCEPT ![k] = "awaitLoad"]
            /\ UNCHANGED <<scriptTag, script>>
       ELSE /\ loadScript(k)
            /\ pc' = [pc EXCEPT ![k] = "awaitScript"]
    /\ UNCHANGED <<input, JSZipDefined, zip, slideFiles, i, result, err, log, reads>>

\* s.onload = resolve: the library has run and defined JSZip.
ScriptOnload(k) ==
    /\ pc[k] = "awaitScript"
    /\ script[k] = "pending"
    /\ JSZipDefined' = TRUE
    /\ script' = [script EXCEPT ![k] = "resolved"]
    /\ UNCHANGED <<input, scriptTag, pc, pptxBlob, zip, slideFiles, i, result,
                   err, log, reads>>

\* s.onerror = reject
ScriptOnerror(k) ==
    /\ pc[k] = "awaitScript"
    /\ script[k] = "pending"
    /\ script' = [script EXCEPT ![k] = "rejected"]
    /\ UNCHANGED <<input, JSZipDefined, scriptTag, pc, pptxBlob, zip, slideFiles,
                   i, result, err, log, reads>>

\* Resumption after await loadScript(...), which is outside the try block: a
\* rejection rejects applyTransitions' own promise; otherwise the try block is
\* entered and JSZip.loadAsync is called, a ReferenceError when JSZip is still
\* not defined.
AfterLoadScript(k) ==
    /\ pc[k] = "awaitScript"
    /\ script[k] \in {"resolved", "rejected"}
    /\ IF script[k] = "rejected"
       THEN /\ pc' = [pc EXCEPT ![k] = "thrown"]
            /\ err' = [err EXCEPT ![k] = "ScriptError"]
            /\ UNCHANGED <<result, log>>
       ELSE IF JSZipDefined
            THEN /\ pc' = [pc EXCEPT ![k] = "awaitLoad"]
                 /\ UNCHANGED <<result, err, log>>
            ELSE Catch(k, "ReferenceError")
    /\ UNCHANGED <<input, JSZipDefined, scriptTag, pptxBlob, zip, slideFiles, i,
                   reads, script>>

\* The loop test i < slideFiles.length with i = n, and what follows it: the read
\* of slide n is started, or the loop is left and generateAsync is started.
LoopStep(k, files, n) ==
    /\ i' = [i EXCEPT ![k] = n]
    /\ IF n < Len(files)
       THEN /\ reads' = [reads EXCEPT ![k] = Append(@, files[n + 1])]
            /\ pc' = [pc EXCEPT ![k] = "awaitRead"]
       ELSE /\ pc' = [pc EXCEPT ![k] = "awaitGenerate"]
            /\ UNCHANGED reads

\* Resumption after await JSZip.loadAsync(pptxBlob): the slide list is built
\* and sorted and the loop is entered.
AfterLoadAsync(k) ==
    /\ pc[k] = "awaitLoad"
    /\ IF pptxBlob[k].valid
       THEN LET files == FindSlideFiles(pptxBlob[k].order)
            IN  /\ zip' = [zip EXCEPT ![k] = Package(pptxBlob[k].order, pptxBlob[k].data)]
                /\ slideFiles' = [slideFiles EXCEPT ![k] = files]
                /\ log' = [log EXCEPT ![k] = Append(@, LogFound(Len(files)))]
                /\ LoopStep(k, files, FirstIndex)
                /\ UNCHANGED <<result, err>>
       ELSE /\ Catch(k, "CorruptArchive")
            /\ UNCHANGED <<zip, slideFiles, i, reads>>
    /\ UNCHANGED <<input, JSZipDefined, scriptTag, pptxBlob, script>>

\* The read of slideFiles[i] was rejected: the await throws inside the try
\* block, whose only handler is the function's catch.
ReadRejected_SkipSlide(k) ==
    /\ log' = [log EXCEPT ![k] = Append(@, LogError)]
    /\ LoopStep(k, slideFiles[k], i[k] + 1)
    /\ UNCHANGED <<zip, result, err>>

ReadRejected(k) ==
    /\ Catch(k, "ReadError")
    /\ UNCHANGED <<zip, i, reads>>

\* The read of slideFiles[i] was fulfilled: the loop body, i++, and the next
\* loop test.
ReadFulfilled(k) ==
    LET path == slideFiles[k][i[k] + 1]
        slideXml == zip[k].data[path].text
        transType == TransTypeAt(i[k])
        transXml == TRANSITIONS[transType]
    IN  /\ IF NoTransition(slideXml)
           THEN /\ zip' = WriteFile(zip, k, path, Inject(slideXml, transXml))
                /\ log' = [log EXCEPT ![k] = Append(@, LogSlide(i[k] + 1, transType))]
           ELSE UNCHANGED <<zip, log>>
        /\ LoopStep(k, slideFiles[k], i[k] + 1)
        /\ UNCHANGED <<result, err>>

\* Resumption after await zip.file(slideFiles[i]).async('string')
AfterSlideRead(k) ==
    /\ pc[k] = "awaitRead"
    /\ IF zip[k].data[slideFiles[k][i[k] + 1]].ok
       THEN ReadFulfilled(k)
       ELSE ReadRejected(k)
    /\ UNCHANGED <<input, JSZipDefined, scriptTag, pptxBlob, slideFiles, script>>

\* Resumption after await zip.generateAsync(...): a new blob holding the
\* package's entries, or the catch when serialization failed.
AfterGenerateAsync(k) ==
    /\ pc[k] = "awaitGenerate"
    /\ \E ok \in BOOLEAN :
          IF ok
          THEN /\ result' = [result EXCEPT ![k] = Blob(k, TRUE, zip[k].order, zip[k].data)]
               /\ log' = [log EXCEPT ![k] = Append(@, LogApplied)]
               /\ pc' = [pc EXCEPT ![k] = "returned"]
               /\ UNCHANGED err
          ELSE Catch(k, "SerializeError")
    /\ UNCHANGED <<input, JSZipDefined, scriptTag, pptxBlob, zip, slideFiles, i,
                   reads, script>>

\* The caller: the first call is on the input; each later call is made when
\* the one before has ended, on what it returned (on the same argument again
\* when it threw).
CallChained(k) ==
    /\ k > 1 => pc[k - 1] \in {"returned", "thrown"}
    /\ applyTransitions(k, IF k = 1 THEN input
                           ELSE IF pc[k - 1] = "returned" THEN result[k - 1]
                           ELSE pptxBlob[k - 1])

Resume(k) ==
    \/ ScriptOnload(k)
    \/ ScriptOnerror(k)
    \/ AfterLoadScript(k)
    \/ AfterLoadAsync(k)
    \/ AfterSlideRead(k)
    \/ AfterGenerateAsync(k)

Next == \E k \in Invocations : CallChained(k) \/ Resume(k)

Spec == Init /\ [][Next]_vars

\* ------------------------------------------- the vocabulary of the claims
\* The ordinals of the slide parts of a blob, its slide at a 0-based position
\* of the numeric order, and the position of an ordinal: stated from the entry
\* names, not from the slide list the program builds.
OrdinalPath == [q \in 1..(MaxOrdinal + 1) |-> SlidePath(q)]

OrdinalsOf(b) == {q \in DOMAIN OrdinalPath : OrdinalPath[q] \in DOMAIN b.data}

PositionIn(S, q) == Cardinality({r \in S : r < q})

PositionOf(b, q) == PositionIn(OrdinalsOf(b), q)

SlideAt(b, pos) ==
    LET S == OrdinalsOf(b)
    IN  OrdinalPath[CHOOSE q \in S : PositionIn(S, q) = pos]

SlideCount(b) == Cardinality(OrdinalsOf(b))

HasClosingTag(xml) == \E n \in 1..Len(xml) : xml[n] = "</p:sld>"
HasMarker(xml) == \E n \in 1..Len(xml) : xml[n] = "<p:transition"

\* after is before with the fragment put immediately before a closing tag
Received(before, after, frag) ==
    \E n \in 1..Len(before) :
        /\ before[n] = "</p:sld>"
        /\ after = SubSeq(before, 1, n - 1) \o frag \o SubSeq(before, n, Len(before))

\* the number of injected fragments a text holds (no input text has these tokens)
Fragments(xml) == Count(xml, {"<p159:morph", "<p:push"})

Succeeded(k) == pc[k] = "returned" /\ err[k] = "none"

\* every slide of the blob is readable, has a closing tag and no marker
Pristine(b) ==
    /\ b.valid
    /\ \A q \in OrdinalsOf(b) :
          LET c == b.data[SlidePath(q)]
          IN  c.ok /\ HasClosingTag(c.text) /\ ~HasMarker(c.text)

ThreeSlideDeck(b) == Pristine(b) /\ OrdinalsOf(b) = {1, 2, 3}

\* the run after k was made on what run k returned, and has returned too
Rerun(k) ==
    /\ k + 1 \in Invocations
    /\ pc[k] = "returned"
    /\ pc[k + 1] = "returned"
    /\ pptxBlob[k + 1] = result[k]

SameSlides(a, b) ==
    /\ OrdinalsOf(a) = OrdinalsOf(b)
    /\ \A q \in OrdinalsOf(a) : a.data[SlidePath(q)] = b.data[SlidePath(q)]

\* ---------------------------------------------------------------- claims
\* C1 as stated: in a successful run on a 3-slide deck of pristine slides,
\* slide 1 is unmodified, slide 2 receives the morph fragment (the one with a
\* fallback) and slide 3 receives the push fragment; a second run on the
\* result changes no slide.
C1_Slide2MorphSlide3Push ==
    \A k \in Invocations :
        Succeeded(k) /\ ThreeSlideDeck(pptxBlob[k]) =>
            LET before == pptxBlob[k].data
                after == result[k].data
            IN  /\ after[SlidePath(1)] = before[SlidePath(1)]
                /\ Received(before[SlidePath(2)].text, after[SlidePath(2)].text,
                            TRANSITIONS.morph)
                /\ Received(before[SlidePath(3)].text, after[SlidePath(3)].text,
                            TRANSITIONS.push)
                /\ Rerun(k) => SameSlides(result[k + 1], result[k])

\* C1 amended: in a successful run on a 3-slide deck of pristine slides, slide
\* 1 is unmodified, slide 2 receives the push fragment and slide 3 receives the
\* morph fragment, the one with a fallback; a second run on the result changes
\* no slide.
C1_Slide2PushSlide3Morph ==
    \A k \in Invocations :
        Succeeded(k) /\ ThreeSlideDeck(pptxBlob[k]) =>
            LET before == pptxBlob[k].data
                after == result[k].data
            IN  /\ after[SlidePath(1)] = before[SlidePath(1)]
                /\ Received(before[SlidePath(2)].text, after[SlidePath(2)].text,
                            TRANSITIONS.push)
                /\ Received(before[SlidePath(3)].text, after[SlidePath(3)].text,
                            TRANSITIONS.morph)
                /\ "<mc:Fallback" \in Range(after[SlidePath(3)].text)
                /\ "<mc:Fallback" \notin Range(after[SlidePath(2)].text)
                /\ Rerun(k) => SameSlides(result[k + 1], result[k])

C1_Witness ==
    /\ Succeeded(1)
    /\ ThreeSlideDeck(pptxBlob[1])
    /\ Rerun(1)
    /\ Succeeded(2)

C3_FirstSlideUnchanged ==
    \A k \in Invocations :
        LET b == pptxBlob[k]
        IN  pc[k] \in {"awaitRead", "awaitGenerate", "returned"} /\ SlideCount(b) >= 1 =>
                /\ pc[k] = "returned" =>
                      result[k].data[SlideAt(b, 0)] = b.data[SlideAt(b, 0)]
                /\ zip[k].order # <<>> =>
                      zip[k].data[SlideAt(b, 0)] = b.data[SlideAt(b, 0)]

C3_Witness ==
    /\ Succeeded(1)
    /\ SlideCount(input) >= 2
    /\ input.data[SlideAt(input, 0)] = Content(Plain)
    /\ result[1].data[SlideAt(input, 1)] # input.data[SlideAt(input, 1)]
    /\ result[1].data[SlideAt(input, 0)] = Content(Plain)

\* C4: a run made on the blob an earlier run returned leaves every slide text
\* as that earlier run left it, and no slide text ever holds more than one
\* injected fragment. (A run that failed to serialize returned its input, not
\* its output: the run after it is a first run.)
C4_Idempotent ==
    /\ \A k \in Invocations :
          Rerun(k) /\ err[k] # "SerializeError" => SameSlides(result[k + 1], result[k])
    /\ \A k \in Invocations : \A p \in DOMAIN zip[k].data :
          Fragments(zip[k].data[p].text) <= 1
    /\ \A k \in Invocations : \A p \in DOMAIN result[k].data :
          Fragments(result[k].data[p].text) <= 1

C4_Witness ==
    /\ Succeeded(1)
    /\ Rerun(1)
    /\ Succeeded(2)
    /\ SlideCount(input) = 3
    /\ input.data[SlidePath(2)] = Content(Plain)
    /\ input.data[SlidePath(3)] = Content(NoClose)
    /\ Fragments(result[2].data[SlidePath(2)].text) = 1

\* C7: when the archive cannot be loaded or cannot be serialized the call does
\* not throw: its promise is fulfilled with the very blob it was given
\* (identity and content), and the failure is reported on the console.
C7_FailureReturnsInput ==
    \A k \in Invocations :
        err[k] \in {"CorruptArchive", "SerializeError"} =>
            /\ pc[k] = "returned"
            /\ result[k] = pptxBlob[k]
            /\ log[k][Len(log[k])] = LogError

C7_Witness ==
    /\ err[1] = "SerializeError"
    /\ pc[1] = "returned"
    /\ zip[1].data # pptxBlob[1].data
    /\ result[1].id = 0

\* C8: a successful run returns a blob with the same entry paths in the same
\* order, and every entry that is not a slide part at a position >= 1 of the
\* numeric order has the content it had in the input.
C8_OtherEntriesUntouched ==
    \A k \in Invocations :
        Succeeded(k) =>
            LET b == pptxBlob[k]
                r == result[k]
            IN  /\ DOMAIN r.data = DOMAIN b.data
                /\ r.order = b.order
                /\ \A p \in DOMAIN b.data :
                      (\A q \in OrdinalsOf(b) :
                          p = SlidePath(q) => PositionOf(b, q) = 0)
                      => r.data[p] = b.data[p]

C8_Witness ==
    /\ Succeeded(1)
    /\ result[1].data # input.data
    /\ StraySlide \in DOMAIN result[1].data
    /\ result[1].data[StraySlide] = Content(Plain)

\* C9 as stated: a slide without marker and without closing tag is not logged
\* as a transition applied: every "Slide n: type" line of the console is about a
\* slide that had a closing tag to put the fragment before.
C9_MissingCloseNotLoggedAsApplied ==
    \A k \in Invocations : \A m \in 1..Len(log[k]) :
        log[k][m].kind = "slide" =>
            HasClosingTag(pptxBlob[k].data[SlideAt(pptxBlob[k], log[k][m].n - 1)].text)

\* ------------------------------------------------- decks of 3 and more slides
\* Decks of 3..MaxCycleSlides slides whose ordinals are 1,2,3,... or 2,4,6,...
\* (so that position and ordinal differ), listed by the archive in descending
\* order.
CycleContents == {Content(Plain), Content(Marked), Content(TwoClose)}

CycleInputs ==
    UNION {{Deck(ords, f, TRUE) :
                ords \in {[q \in 1..n |-> q], [q \in 1..n |-> 2 * q]},
                f \in [1..n -> CycleContents]} : n \in 3..MaxCycleSlides}

InitCycle == InitFrom(CycleInputs)

SpecCycle == InitCycle /\ [][Next]_vars

ExpectedType(pos) ==
    IF pos % 2 = 1 THEN TRANSITION_SEQUENCE[2] ELSE TRANSITION_SEQUENCE[1]

\* C5: once the loop of a run on a deck of N >= 3 slides is over, every slide
\* at a position i >= 1 of the numeric order that had no marker and had a
\* closing tag holds exactly the fragment of sequence[i mod 2], whatever its
\* ordinal and its text.
C5_CyclicAssignment ==
    \A k \in Invocations :
        LET b == pptxBlob[k]
            after == IF pc[k] = "awaitGenerate" THEN zip[k].data ELSE result[k].data
        IN  (pc[k] = "awaitGenerate" \/ Succeeded(k)) /\ SlideCount(b) >= 3 =>
                \A q \in OrdinalsOf(b) :
                    LET pos == PositionOf(b, q)
                        before == b.data[SlidePath(q)]
                    IN  /\ pos >= 1
                        /\ before.ok
                        /\ ~HasMarker(before.text)
                        /\ HasClosingTag(before.text)
                        => /\ Received(before.text, after[SlidePath(q)].text,
                                       TRANSITIONS[ExpectedType(pos)])
                           /\ Fragments(after[SlidePath(q)].text) = 1

C5_Witness ==
    /\ Succeeded(1)
    /\ OrdinalsOf(input) = {2, 4, 6, 8, 10}
    /\ input.data[SlidePath(4)] = Content(TwoClose)
    /\ input.data[SlidePath(6)] = Content(Plain)
    /\ "<p:push" \in Range(result[1].data[SlidePath(4)].text)
    /\ "<p159:morph" \in Range(result[1].data[SlidePath(6)].text)
    /\ "<p:push" \in Range(result[1].data[SlidePath(8)].text)
    /\ "<p159:morph" \in Range(result[1].data[SlidePath(10)].text)

\* ------------------------------------------------------ enumeration orders
\* Every enumeration order of every subset of a pool of entries, and the deck
\* of the ordinals 1..MaxOrdinal listed in ascending, descending and lexical
\* order of the names.
OrderPool == {SlidePath(1), SlidePath(2), SlidePath(10), Layout1, StraySlide}

Enumerations(S) ==
    {s \in UNION {[1..n -> S] : n \in 0..Cardinality(S)} :
        \A a, b \in 1..Len(s) : a # b => s[a] # s[b]}

AscendingOrder == [q \in 1..MaxOrdinal |-> SlidePath(q)]

LexicalOrder ==
    <<SlidePath(1)>> \o [q \in 1..(MaxOrdinal - 9) |-> SlidePath(9 + q)]
                     \o [q \in 1..8 |-> SlidePath(q + 1)]

AllPlain == [q \in 1..MaxOrdinal |-> Content(Plain)]

OrderInputs ==
    {Archive(order, [q \in 1..MaxOrdinal |-> q], AllPlain) :
        order \in Enumerations(OrderPool)
                  \cup {OtherEntries \o AscendingOrder,
                        Reverse(OtherEntries \o AscendingOrder),
                        OtherEntries \o LexicalOrder}}

InitOrder == InitFrom(OrderInputs)

SpecOrder == InitOrder /\ [][Next]_vars

Listed(k) ==
    \/ pc[k] \in {"awaitRead", "awaitGenerate"}
    \/ pc[k] = "returned" /\ err[k] \in {"none", "ReadError", "SerializeError"}

\* C6: whatever the enumeration order, the slide list of a run holds exactly
\* the entries named ppt/slides/slide<digits>.xml, in strictly increasing
\* numeric order of the ordinal, and the slides are read one at a time in that
\* order from the second on; for the ordinals 1..11 that is 1,2,...,10,11.
C6_NumericOrder ==
    \A k \in Invocations :
        Listed(k) =>
            LET b == pptxBlob[k]
            IN  /\ Len(slideFiles[k]) = SlideCount(b)
                /\ \A m \in 1..Len(slideFiles[k]) : slideFiles[k][m] = SlideAt(b, m - 1)
                /\ \A m \in 1..(Len(slideFiles[k]) - 1) :
                      \E q, r \in OrdinalsOf(b) :
                          /\ slideFiles[k][m] = SlidePath(q)
                          /\ slideFiles[k][m + 1] = SlidePath(r)
                          /\ q < r
                /\ Range(slideFiles[k]) \cap {Layout1, Master1, Rels1, StraySlide,
                                              Presentation} = {}
                /\ Len(reads[k]) < Len(slideFiles[k]) \/ slideFiles[k] = <<>>
                /\ reads[k] = SubSeq(slideFiles[k], 2, Len(reads[k]) + 1)
                /\ OrdinalsOf(b) = 1..MaxOrdinal => slideFiles[k] = AscendingOrder

C6_Witness ==
    /\ pc[1] = "awaitGenerate"
    /\ input.order = OtherEntries \o LexicalOrder
    /\ slideFiles[1] = AscendingOrder
    /\ reads[1] = Tail(AscendingOrder)
    /\ slideFiles[1][10] = SlidePath(10)
    /\ slideFiles[1][2] = SlidePath(2)

\* ------------------------------------------------- concurrent invocations
\* Any idle invocation may be called at any time, on the input or on a blob a
\* run has returned: the calls of several event handlers of the page.
ConcInputs ==
    UNION {{Deck([q \in 1..n |-> q], f, FALSE) :
                f \in [1..n -> {Content(Plain), Content(Marked)}]} :
           n \in 2..MaxConcSlides}

CallAny(k) ==
    \E b \in {input} \cup {result[j] : j \in {r \in Invocations : pc[r] = "returned"}} :
        applyTransitions(k, b)

NextConc == \E k \in Invocations : CallAny(k) \/ Resume(k)

InitConc == InitFrom(ConcInputs)

SpecConc == InitConc /\ [][NextConc]_vars

\* invocation j takes no part in the step
Idle(j) == pc'[j] = pc[j] /\ i'[j] = i[j] /\ script'[j] = script[j]

\* C10 as stated: no suspension lies between or inside the iterations of the
\* slide loop, so that while one invocation is in its loop no other invocation
\* takes a step.
C10_NoStepDuringLoop ==
    [][\A k \in Invocations :
          pc[k] = "awaitRead" => \A j \in Invocations \ {k} : Idle(j)]_vars

\* C10 amended: an invocation is suspended before the pipeline (dependency
\* load, archive load), once in every iteration of the slide loop (the read of
\* the slide's text) and after the loop (serialization), so other invocations
\* can run between two iterations; each invocation works on its own Package,
\* which no step of another invocation changes.
C10_OwnPackage ==
    [][\A j \in Invocations :
          /\ pc[j] \in {"idle", "awaitScript", "awaitLoad", "awaitRead",
                        "awaitGenerate", "returned", "thrown"}
          /\ Idle(j) =>
                /\ zip'[j] = zip[j]
                /\ slideFiles'[j] = slideFiles[j]
                /\ result'[j] = result[j]
                /\ reads'[j] = reads[j]
                /\ log'[j] = log[j]]_vars

C10_Witness ==
    /\ pc[1] = "awaitRead"
    /\ pc[2] = "awaitRead"
    /\ i[1] = 2
    /\ i[2] = 2
    /\ zip[1].data # pptxBlob[1].data
    /\ zip[2].data # pptxBlob[2].data
    /\ pptxBlob[1] = pptxBlob[2]
====
